---- MODULE Spec2Model ----
(***************************************************************************)
(* A model of src/Main.py: the paginated news scraper.                     *)
(*                                                                         *)
(*   Spec       main(): input, submission of the worklist to the thread    *)
(*              pool, the workers running fetch_and_parse_page, the        *)
(*              as_completed loop, filtering and display.                  *)
(*   FairSpec   Spec with the fairness the thread scheduler, the HTTP      *)
(*              client and time.sleep give.                                *)
(*   SpecAttempts                                                          *)
(*              Spec with the GETs of each task counted.                   *)
(*   SpecFetch  one call fetch_html(url, max_retries = N) on its own.      *)
(*   SpecFilter, SpecUrl, SpecParse                                        *)
(*              filter_news_by_keyword, the Page Task's URL and parse_news *)
(*              applied to arguments drawn from bounded sets.              *)
(***************************************************************************)
EXTENDS Integers, Sequences, FiniteSets, Bags, TLC

(***************************************************************************)
(* Configuration (src/Main.py:13-18, 127).                                 *)
(***************************************************************************)
NEWS_URL_CONSTANT == "https://www.artnews.com/c/art-news/market/"
NEWS_URL_1 == "https://www.artnews.com/art-news/market/"
START_PAGE == 2
\* END_PAGE is 100 in the source (198 tasks); the model runs a short range.
END_PAGE == 3
\* max_workers is 5 in the source; the model runs a narrower pool so that
\* the worklist is longer than the pool is wide.
max_workers == 2
\* The default of fetch_html's max_retries parameter.
DEFAULT_MAX_RETRIES == 3
\* SpecFetch calls fetch_html with max_retries in 0..MaxRetriesArg.
MaxRetriesArg == 4

\* Python's None and a present value: an optional value is a sequence of
\* length 0 or 1.
None == <<>>
Some(x) == <<x>>

(***************************************************************************)
(* Text.  A str is a sequence of one-character strings.                    *)
(***************************************************************************)
Upper == <<"A", "B", "D", "I", "R", "T">>
Lower == <<"a", "b", "d", "i", "r", "t">>

\* str.lower() on one character
LowerChar(c) ==
    IF \E i \in 1..Len(Upper) : Upper[i] = c
    THEN Lower[CHOOSE i \in 1..Len(Upper) : Upper[i] = c]
    ELSE c

\* str.lower()
lower(s) == [i \in 1..Len(s) |-> LowerChar(s[i])]

\* Python's `k in s` on two str
Contains(k, s) ==
    \E i \in 0..(Len(s) - Len(k)) : SubSeq(s, i + 1, i + Len(k)) = k

(***************************************************************************)
(* HTML.  A response body is a sequence of nodes; the empty sequence is    *)
(* the empty string.  A node is an h3.c-title container (kind "h3"), any   *)
(* other markup (kind "other"), or markup on which the parser raises       *)
(* (kind "bad").                                                           *)
(***************************************************************************)
Container(a, href, title, link) ==
    [kind |-> "h3", has_a |-> a, has_href |-> href, title |-> title, link |-> link]

OtherNode == [kind |-> "other", has_a |-> FALSE, has_href |-> FALSE,
              title |-> <<>>, link |-> <<>>]

BadNode == [kind |-> "bad", has_a |-> FALSE, has_href |-> FALSE,
            title |-> <<>>, link |-> <<>>]

\* The listing page the site serves at url: two articles, and one title
\* container whose anchor carries no href.
Page(url) ==
    << Container(TRUE, TRUE, <<"A", "r", "t">>, <<url, 1>>),
       OtherNode,
       Container(TRUE, FALSE, <<"a", "d">>, <<url, 2>>),
       Container(TRUE, TRUE, <<"B", "i", "d">>, <<url, 3>>) >>

\* The bodies a successful GET of url may carry.
Bodies(url) == { <<>>, Page(url), <<BadNode>> \o Page(url) }

RECURSIVE select_titles(_)
\* lines 55-60: the loop over soup.select('h3.c-title')
select_titles(html) ==
    IF html = <<>> THEN <<>>
    ELSE LET item == Head(html)
             rest == select_titles(Tail(html))
         IN IF item.kind = "h3" /\ item.has_a /\ item.has_href
            THEN << <<item.title, item.link>> >> \o rest
            ELSE rest

\* parse_news without the test of line 57: a container without the link
\* or its href raises at line 59, and the except clause returns [].
parse_news_untested_link(html) ==
    IF \E i \in 1..Len(html) :
          \/ html[i].kind = "bad"
          \/ html[i].kind = "h3" /\ ~(html[i].has_a /\ html[i].has_href)
    THEN <<>>
    ELSE select_titles(html)

\* parse_news: an exception of the parser is caught and gives [].
parse_news(html) ==
    IF \E i \in 1..Len(html) : html[i].kind = "bad"
    THEN <<>>
    ELSE select_titles(html)

\* filter_news_by_keyword comparing the lowered keyword with the title as
\* it is.
filter_news_by_keyword_title_case(news_list, keyword) ==
    IF keyword = None \/ keyword[1] = <<>>
    THEN news_list
    ELSE LET keyword_lower == lower(keyword[1])
         IN SelectSeq(news_list, LAMBDA news : Contains(keyword_lower, news[1]))

\* filter_news_by_keyword
filter_news_by_keyword(news_list, keyword) ==
    IF keyword = None \/ keyword[1] = <<>>
    THEN news_list
    ELSE LET keyword_lower == lower(keyword[1])
         IN SelectSeq(news_list, LAMBDA news : Contains(keyword_lower, lower(news[1])))

\* The lines display_news prints: the delimiter, "{i}. {title}" and the
\* link line.
SeparatorLine == [kind |-> "separator", n |-> 0, text |-> <<>>]
TitleLine(i, title) == [kind |-> "title", n |-> i, text |-> title]
LinkLine(link) == [kind |-> "link", n |-> 0, text |-> link]

\* display_news: the lines printed
display_news(news_list) ==
    IF news_list = <<>>
    THEN << "no_match" >>
    ELSE [j \in 1..(1 + 3 * Len(news_list)) |->
            IF j = 1 THEN SeparatorLine
            ELSE LET i == ((j - 2) \div 3) + 1
                     r == (j - 2) % 3
                 IN CASE r = 0 -> TitleLine(i, news_list[i][1])
                      [] r = 1 -> LinkLine(news_list[i][2])
                      [] OTHER -> SeparatorLine]

\* get_user_input: input(...) or None
get_user_input(line) == IF line = <<>> THEN None ELSE Some(line)

\* What the operator may type at the prompt.
Lines == { <<>>, <<"A", "R", "T">>, <<"T", "A">> }

(***************************************************************************)
(* The worklist (lines 120-126).                                           *)
(***************************************************************************)
PageRange == START_PAGE..END_PAGE

\* The worklist built with range(first, last), which leaves the last page out.
build_worklist_without_last(first, last) ==
    [i \in 1..(last - first) |-> <<first + i - 1, NEWS_URL_CONSTANT>>]
    \o
    [i \in 1..(last - first) |-> <<first + i - 1, NEWS_URL_1>>]

\* lines 120-124 with START_PAGE = first and END_PAGE = last
build_worklist(first, last) ==
    [i \in 1..(last - first + 1) |-> <<first + i - 1, NEWS_URL_CONSTANT>>]
    \o
    [i \in 1..(last - first + 1) |-> <<first + i - 1, NEWS_URL_1>>]

urls_to_fetch == build_worklist(START_PAGE, END_PAGE)

total_pages == Len(urls_to_fetch)

Tasks == 1..total_pages

\* page_url without the special case of the first page.
page_url_no_first_page(page, base_url) ==
    base_url \o "page/" \o ToString(page) \o "/"

\* line 108
page_url(page, base_url) ==
    IF page = 1 THEN base_url ELSE base_url \o "page/" \o ToString(page) \o "/"

TaskUrl(t) == page_url(urls_to_fetch[t][1], urls_to_fetch[t][2])

(***************************************************************************)
(* fetch_html (lines 18-40).  A frame is the state of one call: the loop   *)
(* variable attempt, where the call stands (in requests.get, in            *)
(* time.sleep, returned, or left by an exception) and the value returned.  *)
(***************************************************************************)
\* What one requests.get + raise_for_status + response.text may do: give
\* the body, raise a RequestException (transport error or HTTP status), or
\* raise an exception of another class, which line 34 does not catch.
Outcomes(url) ==
    { [kind |-> "ok", text |-> Some(b)] : b \in Bodies(url) }
    \cup { [kind |-> "RequestException", text |-> None],
           [kind |-> "Exception", text |-> None] }

IdleFrame == [attempt |-> 0, phase |-> "idle", ret |-> None]

\* Entering the call: range(max_retries) is empty when max_retries <= 0.
fetch_html_enter(N) ==
    IF N <= 0
    THEN [attempt |-> 0, phase |-> "returned", ret |-> None]
    ELSE [attempt |-> 0, phase |-> "get", ret |-> None]

\* fetch_html_get retrying once more than max_retries allows.
fetch_html_get_extra_retry(fr, outcome, N) ==
    CASE outcome.kind = "ok" ->
            [fr EXCEPT !.phase = "returned", !.ret = outcome.text]
      [] outcome.kind = "RequestException" ->
            IF fr.attempt < N
            THEN [fr EXCEPT !.phase = "sleep"]
            ELSE [fr EXCEPT !.phase = "returned", !.ret = None]
      [] OTHER ->
            [fr EXCEPT !.phase = "raised"]

\* fetch_html_get retrying at once, without the delay.
fetch_html_get_no_delay(fr, outcome, N) ==
    CASE outcome.kind = "ok" ->
            [fr EXCEPT !.phase = "returned", !.ret = outcome.text]
      [] outcome.kind = "RequestException" ->
            IF fr.attempt < N - 1
            THEN [fr EXCEPT !.attempt = fr.attempt + 1]
            ELSE [fr EXCEPT !.phase = "returned", !.ret = None]
      [] OTHER ->
            [fr EXCEPT !.phase = "raised"]

\* fetch_html_get without its except clause.
fetch_html_get_uncaught(fr, outcome, N) ==
    CASE outcome.kind = "ok" ->
            [fr EXCEPT !.phase = "returned", !.ret = outcome.text]
      [] OTHER ->
            [fr EXCEPT !.phase = "raised"]

\* lines 30-40: one pass of the loop body, up to the sleep or the return.
fetch_html_get(fr, outcome, N) ==
    CASE outcome.kind = "ok" ->
            [fr EXCEPT !.phase = "returned", !.ret = outcome.text]
      [] outcome.kind = "RequestException" ->
            IF fr.attempt < N - 1
            THEN [fr EXCEPT !.phase = "sleep"]
            ELSE [fr EXCEPT !.phase = "returned", !.ret = None]
      [] OTHER ->
            [fr EXCEPT !.phase = "raised"]

\* fetch_html_wake retrying the same attempt: a loop that never counts.
fetch_html_wake_no_count(fr) == [fr EXCEPT !.phase = "get"]

\* line 37 returning, and the loop's next iteration
fetch_html_wake(fr) == [fr EXCEPT !.attempt = fr.attempt + 1, !.phase = "get"]

(***************************************************************************)
(* fetch_and_parse_page (lines 107-112), from the end of its fetch_html    *)
(* call: the result or exception that the future holds.                    *)
(***************************************************************************)
NoResult == [exc |-> FALSE, value |-> <<>>]

fetch_and_parse_page(fr) ==
    IF fr.phase = "raised"
    THEN [exc |-> TRUE, value |-> <<>>]
    ELSE IF fr.ret # None /\ fr.ret[1] # <<>>
         THEN [exc |-> FALSE, value |-> parse_news(fr.ret[1])]
         ELSE [exc |-> FALSE, value |-> <<>>]

(***************************************************************************)
(* State.                                                                  *)
(***************************************************************************)
VARIABLES
    pc,          \* where main() stands
    keyword,     \* main's keyword
    submitted,   \* number of futures created so far (future_to_url)
    fut,         \* fut[t]: state of the future of urls_to_fetch[t]
    frame,       \* frame[t]: the fetch_html call of the worker running t
    result,      \* result[t]: what the finished future holds
    yielded,     \* futures as_completed has handed to the loop
    all_news,    \* the accumulator
    pbar_n,      \* tqdm's counter
    printed,     \* lines 144-149: what the run printed at the end
    fetched_ok,  \* history: some GET of this run succeeded
    runs,        \* history: runs[t]: times a worker has started task t
    counting,    \* whether this behaviour records attempts (SpecAttempts)
    attempts,    \* history: attempts[t]: requests.get calls made for task t
    call,        \* SpecFetch: the Page Task under test
    gets,        \* SpecFetch: what each requests.get of the call did, in order
    sleeps,      \* SpecFetch: time.sleep calls made
    app          \* SpecFilter, SpecUrl, SpecParse: a function's arguments and result

mainVars == <<pc, keyword, submitted, fut, frame, result, yielded, all_news,
              pbar_n, printed, fetched_ok, runs, counting, attempts>>
fetchVars == <<call, gets, sleeps>>
\* The variables of the stand-alone specifications, which main leaves alone.
sideVars == <<call, gets, sleeps, app>>
vars == <<pc, keyword, submitted, fut, frame, result, yielded, all_news,
          pbar_n, printed, fetched_ok, runs, counting, attempts, call, gets,
          sleeps, app>>

NoCall == [url |-> "", max_retries |-> 0, frame |-> IdleFrame, result |-> None]

NoApp == [fn |-> "none"]

MainState ==
    /\ pc = "input"
    /\ keyword = None
    /\ submitted = 0
    /\ fut = [t \in Tasks |-> "NONE"]
    /\ frame = [t \in Tasks |-> IdleFrame]
    /\ result = [t \in Tasks |-> NoResult]
    /\ yielded = {}
    /\ all_news = <<>>
    /\ pbar_n = 0
    /\ printed = <<>>
    /\ fetched_ok = FALSE
    /\ runs = [t \in Tasks |-> 0]
    /\ attempts = [t \in Tasks |-> 0]

\* The history of attempts is kept only in the behaviours of SpecAttempts:
\* a finished task's count is not a function of the rest of the state.
MainInit == MainState /\ counting = FALSE

Init ==
    /\ MainInit
    /\ call = NoCall
    /\ gets = <<>>
    /\ sleeps = 0
    /\ app = NoApp

Running == { t \in Tasks : fut[t] = "RUNNING" }
Finished == { t \in Tasks : fut[t] = "FINISHED" }

(***************************************************************************)
(* main (lines 114-149).                                                   *)
(***************************************************************************)
\* line 116
GetUserInput ==
    /\ pc = "input"
    /\ \E line \in Lines : keyword' = get_user_input(line)
    /\ pc' = "submit"
    /\ UNCHANGED <<submitted, fut, frame, result, yielded, all_news, pbar_n,
                   printed, fetched_ok>>
    /\ UNCHANGED <<runs, counting, attempts>>
    /\ UNCHANGED sideVars

\* A loop that submits one task and waits for it before the next.
after_submit_wait(n) == "collect"

\* lines 128-134: the comprehension goes on to the next pair; the loop over
\* as_completed starts once the dict is built.
after_submit(n) == IF n = total_pages THEN "collect" ELSE "submit"

\* lines 128-131: one executor.submit of the dict comprehension
Submit ==
    /\ pc = "submit"
    /\ submitted < total_pages
    /\ submitted' = submitted + 1
    /\ fut' = [fut EXCEPT ![submitted + 1] = "PENDING"]
    /\ pc' = after_submit(submitted + 1)
    /\ UNCHANGED <<keyword, frame, result, yielded, all_news, pbar_n, printed,
                   fetched_ok>>
    /\ UNCHANGED <<runs, counting, attempts>>
    /\ UNCHANGED sideVars

\* A pool that starts a thread for every task.
WorkerFree_unbounded == TRUE

\* The pool: a worker is free when fewer than max_workers tasks run.
WorkerFree == Cardinality(Running) < max_workers

\* The pool's work queue is first in, first out.
NextQueued(t) == fut[t] = "PENDING" /\ \A u \in Tasks : u < t => fut[u] # "PENDING"

\* A free worker takes the head of the queue and calls
\* fetch_and_parse_page(page, base_url), which enters fetch_html(url).
Start(t) ==
    /\ NextQueued(t)
    /\ WorkerFree
    /\ fut' = [fut EXCEPT ![t] = "RUNNING"]
    /\ frame' = [frame EXCEPT ![t] = fetch_html_enter(DEFAULT_MAX_RETRIES)]
    /\ runs' = [runs EXCEPT ![t] = runs[t] + 1]
    /\ UNCHANGED <<counting, attempts>>
    /\ UNCHANGED <<pc, keyword, submitted, result, yielded, all_news, pbar_n,
                   printed, fetched_ok>>
    /\ UNCHANGED sideVars

\* The worker of t makes one GET.  When fetch_html ends with it the task
\* runs to its end and the future is finished.
Attempt(t) ==
    /\ fut[t] = "RUNNING"
    /\ frame[t].phase = "get"
    /\ \E outcome \in Outcomes(TaskUrl(t)) :
         LET fr == fetch_html_get(frame[t], outcome, DEFAULT_MAX_RETRIES)
         IN /\ IF fr.phase \in {"returned", "raised"}
               THEN /\ fut' = [fut EXCEPT ![t] = "FINISHED"]
                    /\ result' = [result EXCEPT ![t] = fetch_and_parse_page(fr)]
                    /\ frame' = [frame EXCEPT ![t] = IdleFrame]
               ELSE /\ frame' = [frame EXCEPT ![t] = fr]
                    /\ UNCHANGED <<fut, result>>
            /\ fetched_ok' = (fetched_ok \/ outcome.kind = "ok")
    /\ attempts' = IF counting
                   THEN [attempts EXCEPT ![t] = attempts[t] + 1]
                   ELSE attempts
    /\ UNCHANGED <<pc, keyword, submitted, yielded, all_news, pbar_n, printed>>
    /\ UNCHANGED <<runs, counting>>
    /\ UNCHANGED sideVars

\* The retry delay of the worker of t ends.
Wake(t) ==
    /\ fut[t] = "RUNNING"
    /\ frame[t].phase = "sleep"
    /\ frame' = [frame EXCEPT ![t] = fetch_html_wake(frame[t])]
    /\ UNCHANGED <<pc, keyword, submitted, fut, result, yielded, all_news,
                   pbar_n, printed, fetched_ok>>
    /\ UNCHANGED <<runs, counting, attempts>>
    /\ UNCHANGED sideVars

\* loop_body putting the task's list in front of the aggregate.
loop_body_prepend(acc, n, res) ==
    [all_news |-> IF res.exc THEN acc ELSE res.value \o acc,
     propagates |-> FALSE,
     pbar_n |-> n + 1]

\* loop_body assigning the task's list instead of extending with it.
loop_body_overwrite(acc, n, res) ==
    [all_news |-> IF res.exc THEN acc ELSE res.value,
     propagates |-> FALSE,
     pbar_n |-> n + 1]

\* loop_body without its except clause.
loop_body_no_except(acc, n, res) ==
    [all_news |-> IF res.exc THEN acc ELSE acc \o res.value,
     propagates |-> res.exc,
     pbar_n |-> n + 1]

\* loop_body updating the progress bar inside the try block.
loop_body_pbar_in_try(acc, n, res) ==
    [all_news |-> IF res.exc THEN acc ELSE acc \o res.value,
     propagates |-> FALSE,
     pbar_n |-> IF res.exc THEN n ELSE n + 1]

\* lines 135-142: the loop body on a future holding res.  future.result()
\* returns the task's list or re-raises its exception; `except Exception`
\* catches it; the finally block runs either way.  propagates: an exception
\* leaves the loop body.
loop_body(acc, n, res) ==
    [all_news |-> IF res.exc THEN acc ELSE acc \o res.value,
     propagates |-> FALSE,
     pbar_n |-> n + 1]

\* lines 134-142: as_completed yields a finished future; the loop body
Consume(t) ==
    /\ pc = "collect"
    /\ fut[t] = "FINISHED"
    /\ t \notin yielded
    /\ yielded' = yielded \cup {t}
    /\ LET b == loop_body(all_news, pbar_n, result[t])
       IN /\ all_news' = b.all_news
          /\ pbar_n' = b.pbar_n
          /\ pc' = IF b.propagates THEN "aborted" ELSE pc
    /\ UNCHANGED <<keyword, submitted, fut, frame, result, printed, fetched_ok>>
    /\ UNCHANGED <<runs, counting, attempts>>
    /\ UNCHANGED sideVars

\* A loop that leaves at the first completed future.
as_completed_done_first(ys) == ys # {}

\* as_completed is exhausted when it has yielded every future it was given.
as_completed_done(ys) == ys = 1..submitted

\* The loop and the two with blocks end.
ExitLoop ==
    /\ pc = "collect"
    /\ as_completed_done(yielded)
    /\ pc' = "output"
    /\ UNCHANGED <<keyword, submitted, fut, frame, result, yielded, all_news,
                   pbar_n, printed, fetched_ok>>
    /\ UNCHANGED <<runs, counting, attempts>>
    /\ UNCHANGED sideVars

\* output without the test of line 145.
output_always_display(news, k) == display_news(filter_news_by_keyword(news, k))

\* lines 145-149
output(news, k) ==
    IF news # <<>>
    THEN display_news(filter_news_by_keyword(news, k))
    ELSE << "no_articles" >>

Output ==
    /\ pc = "output"
    /\ printed' = output(all_news, keyword)
    /\ pc' = "done"
    /\ UNCHANGED <<keyword, submitted, fut, frame, result, yielded, all_news,
                   pbar_n, fetched_ok>>
    /\ UNCHANGED <<runs, counting, attempts>>
    /\ UNCHANGED sideVars

Next ==
    \/ GetUserInput
    \/ Submit
    \/ \E t \in Tasks : Start(t)
    \/ \E t \in Tasks : Attempt(t)
    \/ \E t \in Tasks : Wake(t)
    \/ \E t \in Tasks : Consume(t)
    \/ ExitLoop
    \/ Output

Spec == Init /\ [][Next]_vars

\* Threads are scheduled, a GET returns or raises, a sleep ends.
Fairness ==
    /\ WF_vars(GetUserInput)
    /\ WF_vars(Submit)
    /\ \A t \in Tasks : WF_vars(Start(t))
    /\ \A t \in Tasks : WF_vars(Attempt(t))
    /\ \A t \in Tasks : WF_vars(Wake(t))
    /\ \A t \in Tasks : WF_vars(Consume(t))
    /\ WF_vars(ExitLoop)
    /\ WF_vars(Output)

FairSpec == Spec /\ Fairness

\* main with the history of attempts recorded.
AttemptsInit ==
    /\ MainState
    /\ counting = TRUE
    /\ call = NoCall
    /\ gets = <<>>
    /\ sleeps = 0
    /\ app = NoApp

SpecAttempts == AttemptsInit /\ [][Next]_vars

(***************************************************************************)
(* SpecFetch: one Page Task on its own, for each entry of the worklist,    *)
(* with fetch_html's max_retries drawn from 0..MaxRetriesArg (the Page     *)
(* Task of the source passes the default).  call.result is what the task   *)
(* hands to its caller once fetch_html has ended.                          *)
(***************************************************************************)
FrameDone(fr) == fr.phase \in {"returned", "raised"}

PageTaskResult(fr) == IF FrameDone(fr) THEN Some(fetch_and_parse_page(fr)) ELSE None

FetchInit ==
    /\ MainInit
    /\ \E t \in Tasks, N \in 0..MaxRetriesArg :
          LET fr == fetch_html_enter(N)
          IN call = [url |-> TaskUrl(t), max_retries |-> N, frame |-> fr,
                     result |-> PageTaskResult(fr)]
    /\ gets = <<>>
    /\ sleeps = 0
    /\ app = NoApp

FetchGet ==
    /\ call.frame.phase = "get"
    /\ \E outcome \in Outcomes(call.url) :
          LET fr == fetch_html_get(call.frame, outcome, call.max_retries)
          IN /\ call' = [call EXCEPT !.frame = fr, !.result = PageTaskResult(fr)]
             /\ gets' = Append(gets, outcome)
    /\ UNCHANGED sleeps
    /\ UNCHANGED <<mainVars, app>>

FetchWake ==
    /\ call.frame.phase = "sleep"
    /\ call' = [call EXCEPT !.frame = fetch_html_wake(call.frame)]
    /\ sleeps' = sleeps + 1
    /\ UNCHANGED gets
    /\ UNCHANGED <<mainVars, app>>

FetchNext == FetchGet \/ FetchWake

SpecFetch == FetchInit /\ [][FetchNext]_vars

(***************************************************************************)
(* SpecFilter: filter_news_by_keyword(news_list, keyword) applied to every *)
(* list of at most MaxListLen sample entries and every sample keyword.     *)
(***************************************************************************)
MaxListLen == 3

\* Entries as parse_news builds them: (title, link).
SampleEntries ==
    { << <<"A", "r", "t">>, <<"u", 1>> >>,
      << <<"a", "d">>, <<"u", 2>> >>,
      << <<"B", "i", "d">>, <<"u", 3>> >>,
      << <<"I", "R", "T">>, <<"u", 4>> >> }

\* Keyword arguments: None, the empty str, and texts in either case.
SampleKeywords ==
    { None, Some(<<>>), Some(<<"a">>), Some(<<"A", "R">>), Some(<<"r", "t">>),
      Some(<<"b", "I", "d">>), Some(<<"d", "a">>), Some(<<"x">>) }

SampleLists == UNION { [1..n -> SampleEntries] : n \in 0..MaxListLen }

FilterInit ==
    /\ MainInit
    /\ call = NoCall
    /\ gets = <<>>
    /\ sleeps = 0
    /\ \E L \in SampleLists, k \in SampleKeywords :
          app = [fn |-> "filter_news_by_keyword", news_list |-> L, keyword |-> k,
                 out |-> None]

FilterApply ==
    /\ app.out = None
    /\ app' = [app EXCEPT !.out = Some(filter_news_by_keyword(app.news_list, app.keyword))]
    /\ UNCHANGED <<mainVars, fetchVars>>

FilterNext == FilterApply

SpecFilter == FilterInit /\ [][FilterNext]_vars

(***************************************************************************)
(* SpecUrl: line 108 of fetch_and_parse_page(page, base_url) for every     *)
(* page in 1..MaxPageArg and each sample base URL.                         *)
(***************************************************************************)
MaxPageArg == 20

SampleBaseUrls == { NEWS_URL_CONSTANT, NEWS_URL_1, "https://x/" }

UrlInit ==
    /\ MainInit
    /\ call = NoCall
    /\ gets = <<>>
    /\ sleeps = 0
    /\ \E page \in 1..MaxPageArg, base_url \in SampleBaseUrls :
          app = [fn |-> "page_url", page |-> page, base_url |-> base_url, out |-> None]

UrlApply ==
    /\ app.out = None
    /\ app' = [app EXCEPT !.out = Some(page_url(app.page, app.base_url))]
    /\ UNCHANGED <<mainVars, fetchVars>>

UrlNext == UrlApply

SpecUrl == UrlInit /\ [][UrlNext]_vars

(***************************************************************************)
(* SpecParse: parse_news(html) applied to every document of at most        *)
(* MaxNodes sample nodes.                                                  *)
(***************************************************************************)
MaxNodes == 3

\* Title containers with the link and its href, without the link, with a
\* link that has no href; other markup; markup the parser raises on.
SampleNodes ==
    { Container(TRUE, TRUE, <<"A", "r", "t">>, <<"u", 1>>),
      Container(TRUE, TRUE, <<"B", "i", "d">>, <<"u", 2>>),
      Container(FALSE, FALSE, <<>>, <<>>),
      Container(TRUE, FALSE, <<"a", "d">>, <<>>),
      OtherNode,
      BadNode }

SampleDocuments == UNION { [1..n -> SampleNodes] : n \in 0..MaxNodes }

ParseInit ==
    /\ MainInit
    /\ call = NoCall
    /\ gets = <<>>
    /\ sleeps = 0
    /\ \E html \in SampleDocuments :
          app = [fn |-> "parse_news", html |-> html, out |-> None]

ParseApply ==
    /\ app.out = None
    /\ app' = [app EXCEPT !.out = Some(parse_news(app.html))]
    /\ UNCHANGED <<mainVars, fetchVars>>

ParseNext == ParseApply

SpecParse == ParseInit /\ [][ParseNext]_vars

(***************************************************************************)
(* Properties.                                                             *)
(***************************************************************************)
AllRequestExceptions(log) == \A i \in 1..Len(log) : log[i].kind = "RequestException"

\* C1: for max_retries >= 1, fetch_html makes its GETs one after another
\* and stops at the first that succeeds, returning its body: one GET when
\* the first succeeds; when every GET fails with a RequestException exactly
\* max_retries GETs are made, never more, and None is returned.
C1_FetchAttempts ==
    LET N == call.max_retries
        fr == call.frame
        n == Len(gets)
    IN N >= 1 =>
        /\ n <= N
        /\ \A i \in 1..(n - 1) : gets[i].kind = "RequestException"
        /\ (n >= 1 /\ gets[1].kind = "ok") => n = 1
        /\ (n >= 1 /\ gets[n].kind = "ok") =>
               fr.phase = "returned" /\ fr.ret = gets[n].text /\ fr.ret # None
        /\ (fr.phase = "returned" /\ AllRequestExceptions(gets)) =>
               n = N /\ fr.ret = None
        /\ (n = N /\ AllRequestExceptions(gets)) =>
               fr.phase = "returned" /\ fr.ret = None

C1_Witness ==
    /\ call.max_retries = DEFAULT_MAX_RETRIES
    /\ Len(gets) = DEFAULT_MAX_RETRIES
    /\ AllRequestExceptions(gets)
    /\ call.frame.phase = "returned"
    /\ call.frame.ret = None

RECURSIVE SumLen(_)
\* The number of entries returned by the tasks of S that did not raise.
SumLen(S) ==
    IF S = {} THEN 0
    ELSE LET t == CHOOSE x \in S : TRUE
         IN (IF result[t].exc THEN 0 ELSE Len(result[t].value)) + SumLen(S \ {t})

EntriesPerPage(t) == Len(parse_news(Page(TaskUrl(t))))

\* C2: the accumulator's size is the sum of the sizes of the lists returned
\* by the consumed tasks that did not raise, whatever the completion order;
\* at the end every task is counted, and when every task returned its
\* page's k entries the aggregate has k * total_pages entries.
C2_AggregateSize ==
    /\ Len(all_news) = SumLen(yielded)
    /\ pc = "done" => Len(all_news) = SumLen(Tasks)
    /\ (pc = "done" /\ \A t \in Tasks :
            ~result[t].exc /\ Len(result[t].value) = EntriesPerPage(t))
       => Len(all_news) = EntriesPerPage(1) * total_pages

C2_Witness ==
    /\ pc = "done"
    /\ Len(all_news) = 2 * total_pages
    /\ all_news[1][2][1] # TaskUrl(1)

\* The entries of the accumulator that come from task t's page.
EntriesOf(t) == SelectSeq(all_news, LAMBDA e : e[2][1] = TaskUrl(t))

\* C3: a task that raised is caught by the loop and contributes no entry;
\* the run is not aborted; every other consumed task has all its entries in
\* the accumulator, and at the end every task has been consumed.
C3_RaisedTaskIsolated ==
    /\ pc # "aborted"
    /\ \A t \in yielded :
          EntriesOf(t) = IF result[t].exc THEN <<>> ELSE result[t].value
    /\ pc = "done" => yielded = Tasks

C3_Witness ==
    /\ pc = "done"
    /\ Cardinality({t \in Tasks : result[t].exc}) = 1
    /\ \A t \in Tasks : ~result[t].exc => EntriesOf(t) = parse_news(Page(TaskUrl(t)))

\* C4 as stated: the Page Task never raises to its caller.
C4_NeverRaises == call.result = None \/ ~call.result[1].exc

\* C4 amended: a RequestException of a GET and an exception of the parser
\* never leave the Page Task, which returns [] for them; the task raises
\* exactly when a GET raised an exception that is no RequestException.
C4_CaughtFailures ==
    FrameDone(call.frame) =>
        /\ call.result # None
        /\ gets = <<>> => call.result[1] = [exc |-> FALSE, value |-> <<>>]
        /\ gets # <<>> =>
              LET last == gets[Len(gets)]
                  res == call.result[1]
              IN /\ res.exc <=> last.kind = "Exception"
                 /\ last.kind = "RequestException" => res.value = <<>>
                 /\ (last.kind = "ok" /\ BadNode \in {last.text[1][i] : i \in 1..Len(last.text[1])})
                       => res.value = <<>>

C4_Witness ==
    /\ FrameDone(call.frame)
    /\ Len(gets) >= 2
    /\ gets[Len(gets)].kind = "ok"
    /\ Len(gets[Len(gets)].text[1]) > 0
    /\ gets[Len(gets)].text[1][1] = BadNode
    /\ call.result = Some([exc |-> FALSE, value |-> <<>>])

\* C5: when no GET of the run succeeded the accumulator stays empty and the
\* run ends without an exception leaving main, printing the no-articles line.
C5_AllFetchesFail ==
    ~fetched_ok =>
        /\ all_news = <<>>
        /\ pc # "aborted"
        /\ pc = "done" => printed = << "no_articles" >>

C5_Witness ==
    /\ pc = "done"
    /\ ~fetched_ok
    /\ \E t \in Tasks : result[t].exc
    /\ \E t \in Tasks : ~result[t].exc

\* C6: filtering and display happen only once every submitted task is
\* finished and its result has been consumed by the loop.
C6_OutputAfterAll ==
    /\ pc \in {"output", "done"} =>
          /\ submitted = total_pages
          /\ \A t \in Tasks : fut[t] = "FINISHED" /\ t \in yielded
    /\ printed # <<>> => pc = "done"

C6_Witness ==
    /\ pc = "done"
    /\ Len(printed) > 1
    /\ \A t \in Tasks : fut[t] = "FINISHED"

\* C7: under fair scheduling every task finishes, the loop consumes every
\* future and main reaches its end.
C7_Terminates ==
    <>(/\ pc = "done"
       /\ \A t \in Tasks : fut[t] = "FINISHED"
       /\ yielded = Tasks)

C7_Witness ==
    /\ pc = "done"
    /\ yielded = Tasks
    /\ printed # <<>>

\* A sequence as a bag.
SeqToBag(q) ==
    [e \in {q[i] : i \in 1..Len(q)} |-> Cardinality({i \in 1..Len(q) : q[i] = e})]

RECURSIVE ResultsBag(_)
\* The bag of the entries returned by tasks 1..n that did not raise.
ResultsBag(n) ==
    IF n = 0 THEN EmptyBag
    ELSE ResultsBag(n - 1)
         (+) (IF result[n].exc THEN EmptyBag ELSE SeqToBag(result[n].value))

\* C8: the final accumulator, as a multiset, is determined by what the
\* tasks returned: it is the sum of their lists, in every completion order.
C8_OrderIndependent ==
    pc = "done" => SeqToBag(all_news) = ResultsBag(total_pages)

C8_Witness ==
    /\ pc = "done"
    /\ \E t, u \in Tasks :
          /\ t < u
          /\ result[t].value # <<>>
          /\ result[u].value # <<>>
          /\ all_news[1] = result[u].value[1]
          /\ all_news[Len(all_news)] = result[t].value[Len(result[t].value)]

\* C9: never more than max_workers tasks run at once, a task in its retry
\* delay counting as running.
C9_PoolWidth ==
    /\ Cardinality(Running) <= max_workers
    /\ \A t \in Tasks : frame[t].phase \in {"get", "sleep"} <=> t \in Running

C9_Witness ==
    /\ Cardinality(Running) = max_workers
    /\ \E t \in Running : frame[t].phase = "sleep"
    /\ \E t \in Tasks : fut[t] = "PENDING"

\* C10: the progress counter is the number of futures consumed, whatever
\* they held; it never exceeds total_pages and equals it at the end.
C10_Progress ==
    /\ pbar_n = Cardinality(yielded)
    /\ pbar_n <= total_pages
    /\ pc \in {"output", "done"} => pbar_n = total_pages

C10_Witness ==
    /\ pc = "done"
    /\ pbar_n = total_pages
    /\ \E t \in Tasks : result[t].exc
    /\ \E t \in Tasks : ~result[t].exc /\ result[t].value = <<>>
    /\ \E t \in Tasks : result[t].value # <<>>

\* Two characters that are the same letter, whatever their case.
SameLetter(a, b) ==
    a = b \/ \E i \in 1..Len(Upper) : {a, b} = {Upper[i], Lower[i]}

\* k occurs in title as a substring, letter case ignored.
OccursIgnoringCase(k, title) ==
    \E o \in 0..(Len(title) - Len(k)) :
        \A j \in 1..Len(k) : SameLetter(title[o + j], k[j])

\* C11: filter_news_by_keyword(L, k) is the entries of L whose title holds
\* k as a case-insensitive substring, in L's order; with k None or empty it
\* is L itself.
C11_Filter ==
    app.out # None =>
        LET L == app.news_list
            k == app.keyword
            out == app.out[1]
            absent == k = None \/ k[1] = <<>>
            idx == { i \in 1..Len(L) : absent \/ OccursIgnoringCase(k[1], L[i][1]) }
            nth(j) == CHOOSE i \in idx : Cardinality({m \in idx : m <= i}) = j
        IN /\ Len(out) = Cardinality(idx)
           /\ \A j \in 1..Len(out) : out[j] = L[nth(j)]
           /\ absent => out = L

C11_Witness ==
    /\ app.out # None
    /\ app.keyword = Some(<<"r", "t">>)
    /\ Len(app.news_list) = 3
    /\ Len(app.out[1]) = 2
    /\ app.out[1][1] = app.news_list[1]
    /\ app.out[1][2] = app.news_list[3]
    /\ app.out[1][1] # app.out[1][2]

DecimalDigits == <<"0", "1", "2", "3", "4", "5", "6", "7", "8", "9">>

RECURSIVE Decimal(_)
\* The decimal numeral of a natural number.
Decimal(n) ==
    IF n < 10 THEN DecimalDigits[n + 1]
    ELSE Decimal(n \div 10) \o DecimalDigits[(n % 10) + 1]

\* C12: the URL the Page Task requests is the base URL itself for page 1
\* and otherwise the base URL followed by "page/{page}/"; on "https://x/",
\* page 1 gives "https://x/" and page 5 gives "https://x/page/5/".
C12_PageUrl ==
    app.out # None =>
        LET url == app.out[1]
        IN /\ app.page = 1 => url = app.base_url
           /\ app.page # 1 => url = app.base_url \o "page/" \o Decimal(app.page) \o "/"
           /\ (app.base_url = "https://x/" /\ app.page = 1) => url = "https://x/"
           /\ (app.base_url = "https://x/" /\ app.page = 5) => url = "https://x/page/5/"
           /\ (app.base_url = "https://x/" /\ app.page = 12) => url = "https://x/page/12/"

C12_Witness ==
    /\ app.out = Some("https://x/page/5/")
    /\ app.page = 5

\* The two base URLs crossed with the inclusive page range.
CrossProduct(first, last) ==
    { <<page, base_url>> : page \in first..last,
                           base_url \in {NEWS_URL_CONSTANT, NEWS_URL_1} }

\* C13: the worklist is the cross product of the two base URLs and the
\* inclusive range [START_PAGE, END_PAGE], each pair once (198 for
\* [2, 100]); a worker starts each request at most once, exactly once by
\* the end of the run, and a finished task, failed or not, is not run again.
C13_WorklistOnce ==
    /\ \A i \in 1..Len(urls_to_fetch) :
          urls_to_fetch[i] \in CrossProduct(START_PAGE, END_PAGE)
    /\ \A r \in CrossProduct(START_PAGE, END_PAGE) :
          Cardinality({i \in 1..Len(urls_to_fetch) : urls_to_fetch[i] = r}) = 1
    /\ Len(build_worklist(2, 100)) = 198
    /\ \A t \in Tasks :
          /\ runs[t] <= 1
          /\ runs[t] = 1 <=> fut[t] \in {"RUNNING", "FINISHED"}
    /\ pc = "done" => \A t \in Tasks : runs[t] = 1 /\ fut[t] = "FINISHED"

C13_Witness ==
    /\ pc = "done"
    /\ \A t \in Tasks : runs[t] = 1
    /\ \E t \in Tasks : result[t].exc
    /\ \E t \in Tasks : ~result[t].exc /\ result[t].value = <<>>
    /\ Len(all_news) = 2

\* time.sleep calls begun so far: those that returned and the one under way.
SleepsStarted == sleeps + (IF call.frame.phase = "sleep" THEN 1 ELSE 0)

\* C14: fetch_html waits after a failed GET exactly when that GET was not
\* the last allowed one: every wait lies between two consecutive GETs, none
\* follows a success or the final failure, and N failures make N - 1 waits.
C14_RetryDelay ==
    LET N == call.max_retries
        fr == call.frame
        n == Len(gets)
    IN N >= 1 =>
        /\ fr.phase = "sleep" =>
              n >= 1 /\ gets[n].kind = "RequestException" /\ n < N
        /\ (n >= 1 /\ gets[n].kind = "RequestException") =>
              (fr.phase \in {"sleep", "get"} <=> n < N)
        /\ fr.phase \in {"get", "sleep"} => SleepsStarted = n
        /\ (FrameDone(fr) /\ n >= 1) => SleepsStarted = n - 1
        /\ (fr.phase = "returned" /\ AllRequestExceptions(gets)) => sleeps = N - 1

C14_Witness ==
    /\ call.max_retries = DEFAULT_MAX_RETRIES
    /\ call.frame.phase = "returned"
    /\ AllRequestExceptions(gets)
    /\ Len(gets) = DEFAULT_MAX_RETRIES
    /\ sleeps = DEFAULT_MAX_RETRIES - 1

\* C15: the loop consumes no result before the last submission: while main
\* submits, nothing has been yielded, added or counted, and a submission is
\* always possible, whatever the workers have finished.
C15_SubmitAllFirst ==
    /\ (yielded # {} \/ all_news # <<>> \/ pbar_n > 0) => submitted = total_pages
    /\ pc = "collect" => submitted = total_pages
    /\ pc = "submit" => submitted < total_pages /\ ENABLED Submit

C15_Witness ==
    /\ pc = "collect"
    /\ Cardinality(yielded) = 1
    /\ submitted = total_pages
    /\ \E t \in Tasks : fut[t] = "PENDING"

IsPrefix(a, b) == Len(a) <= Len(b) /\ SubSeq(b, 1, Len(a)) = a

\* C16: every step leaves the accumulator's content in place and adds zero
\* or more entries at its end, and moves the counter by at most one; the
\* accumulator and the counter change only in a step of main's loop body
\* for one yielded future, never in a step of a worker, so no two of their
\* mutations overlap.
C16_AppendOnly ==
    [][ /\ IsPrefix(all_news, all_news')
        /\ pbar_n' \in {pbar_n, pbar_n + 1}
        /\ (all_news' # all_news \/ pbar_n' # pbar_n) =>
              /\ pc = "collect"
              /\ \E t \in Tasks \ yielded : yielded' = yielded \cup {t}
              /\ fut' = fut /\ frame' = frame /\ result' = result
      ]_vars

C16_Witness ==
    /\ all_news # <<>>
    /\ yielded # {}
    /\ Cardinality(Finished \ yielded) >= 2
    /\ Running # {}

\* The printed lines of one kind, in order.
LinesOfKind(out, kind) == SelectSeq(out, LAMBDA l : l.kind = kind)

\* C17: at the end exactly one output path was taken: an empty accumulator
\* prints the single no-articles line, without filter or display; otherwise
\* the filter is applied and display prints the single nothing-found line
\* for an empty filtered list, and else one item per filtered entry, in
\* order, numbered 1, 2, ...
C17_OutputPath ==
    /\ pc # "done" => printed = <<>>
    /\ pc = "done" =>
          IF all_news = <<>>
          THEN printed = << "no_articles" >>
          ELSE LET f == filter_news_by_keyword(all_news, keyword)
               IN IF f = <<>>
                  THEN printed = << "no_match" >>
                  ELSE /\ Len(printed) = 1 + 3 * Len(f)
                       /\ Len(LinesOfKind(printed, "title")) = Len(f)
                       /\ Len(LinesOfKind(printed, "link")) = Len(f)
                       /\ \A i \in 1..Len(f) :
                             /\ LinesOfKind(printed, "title")[i].n = i
                             /\ LinesOfKind(printed, "title")[i].text = f[i][1]
                             /\ LinesOfKind(printed, "link")[i].text = f[i][2]
                             /\ printed[3 * i - 1].kind = "title"
                             /\ printed[3 * i].kind = "link"

C17_Witness ==
    /\ pc = "done"
    /\ all_news # <<>>
    /\ keyword # None
    /\ printed = << "no_match" >>

\* C18: parse_news returns one entry for each matched title container that
\* has the nested link with an href and none for a container lacking
\* either, in the document order of the containers.  No container is
\* matched in a document on which the parser raises.
C18_Parse ==
    app.out # None =>
        LET html == app.html
            out == app.out[1]
            raises == \E i \in 1..Len(html) : html[i] = BadNode
            matched == IF raises THEN {} ELSE { i \in 1..Len(html) : html[i].kind = "h3" }
            idx == { i \in matched : html[i].has_a /\ html[i].has_href }
            nth(j) == CHOOSE i \in idx : Cardinality({m \in idx : m <= i}) = j
        IN /\ Len(out) = Cardinality(idx)
           /\ \A j \in 1..Len(out) :
                 out[j] = <<html[nth(j)].title, html[nth(j)].link>>

C18_Witness ==
    /\ app.out # None
    /\ Len(app.html) = 3
    /\ app.html[2] = Container(TRUE, FALSE, <<"a", "d">>, <<>>)
    /\ Len(app.out[1]) = 2
    /\ app.out[1][1] = << <<"B", "i", "d">>, <<"u", 2>> >>
    /\ app.out[1][2] = << <<"A", "r", "t">>, <<"u", 1>> >>


\* What one consumed future adds to the aggregate.
Block(t) == IF result[t].exc THEN <<>> ELSE result[t].value

RECURSIVE ConcatBlocks(_)
ConcatBlocks(order) ==
    IF order = <<>> THEN <<>>
    ELSE Block(Head(order)) \o ConcatBlocks(Tail(order))

\* The orders in which the futures of S can have been consumed.
Orders(S) ==
    { o \in [1..Cardinality(S) -> S] :
         \A i, j \in 1..Cardinality(S) : i # j => o[i] # o[j] }

\* C19: each consumption of a future adds that task's whole result at the
\* end of the aggregate as one block, so the aggregate is at every moment
\* the concatenation of the consumed tasks' results in some order of
\* consumption, each task's entries contiguous and in the task's order.
C19_Concatenation ==
    /\ [](\E o \in Orders(yielded) : all_news = ConcatBlocks(o))
    /\ [][\A t \in Tasks :
             (t \notin yielded /\ t \in yielded') =>
                 all_news' = all_news \o Block(t)]_vars

C19_Witness ==
    /\ pc = "done"
    /\ yielded = Tasks
    /\ \E t, u \in Tasks :
          /\ t < u
          /\ Len(Block(t)) > 1
          /\ Len(Block(u)) > 1
          /\ \E i \in 1..Len(all_news) :
                /\ i + Len(Block(u)) + Len(Block(t)) - 1 <= Len(all_news)
                /\ SubSeq(all_news, i, i + Len(Block(u)) + Len(Block(t)) - 1)
                      = Block(u) \o Block(t)


RECURSIVE SumAttempts(_)
SumAttempts(n) == IF n = 0 THEN 0 ELSE attempts[n] + SumAttempts(n - 1)

\* C20: a task makes at least one and at most DEFAULT_MAX_RETRIES GETs, so
\* a run makes at most total_pages * DEFAULT_MAX_RETRIES of them; the GETs
\* of one task are made one after the other by the one worker that runs
\* it: while the task runs, the GETs made are those of the finished passes
\* of the one fetch_html loop, and no task is run twice.
C20_AttemptBound ==
    counting =>
        /\ \A t \in Tasks :
              /\ attempts[t] <= DEFAULT_MAX_RETRIES
              /\ fut[t] = "FINISHED" => attempts[t] >= 1
              /\ fut[t] \in {"NONE", "PENDING"} => attempts[t] = 0
              /\ runs[t] <= 1
              /\ fut[t] = "RUNNING" =>
                    attempts[t] = frame[t].attempt
                                    + (IF frame[t].phase = "sleep" THEN 1 ELSE 0)
        /\ SumAttempts(total_pages) <= total_pages * DEFAULT_MAX_RETRIES

C20_Witness ==
    /\ counting
    /\ pc = "done"
    /\ \E t \in Tasks :
          /\ attempts[t] = 1
          /\ \A u \in Tasks \ {t} : attempts[u] = DEFAULT_MAX_RETRIES
    /\ SumAttempts(total_pages) = total_pages * DEFAULT_MAX_RETRIES - 2

====
